---- MODULE Spec2Model ----
(***************************************************************************)
(* PredSwipe: the swipe session of src/components/SwipeInterface.js as it  *)
(* is mounted and unmounted by the /swipe route of App.js.                 *)
(*                                                                         *)
(* One SwipeInterface instance is one session.  The instance is created    *)
(* with its props (category, user), which never change while it lives:     *)
(* App.js changes selectedCategory and user only on screens where          *)
(* SwipeInterface is not rendered, so a change of category or credentials  *)
(* is an unmount followed by a new mount.  React drops state updates made  *)
(* by callbacks of an unmounted instance; their other side effects (a      *)
(* timer they schedule) still happen.                                      *)
(*                                                                         *)
(* Every step is one event of the browser's event loop: a click, a key     *)
(* press, a timer callback, or the resumption of an async function when    *)
(* the response it awaits arrives.  Rendering and the re-registration of   *)
(* the keydown listener are taken to complete within the event that        *)
(* changed the state.                                                      *)
(*                                                                         *)
(* Spec is the swipe session with its votes, skips and resets, for the one *)
(* category the category screen offers.  SpecFetch is the fetches of the   *)
(* swipe screen and of the category screen (CategorySelection.js), for     *)
(* every category id and every kind of response, without votes.            *)
(***************************************************************************)
EXTENDS Integers, Sequences, FiniteSets, Bags, TLC

\* ------------------------------------------------------------------ bounds
\* Number of accepted votes whose advance has not run yet (suspended
\* handleSwipe calls plus pacing timers).
MaxPending == 2
\* Number of callbacks of one kind that unmounted instances have left behind
\* when a new instance is mounted.
MaxStale == 1

\* ------------------------------------------------------- program constants
\* Every list of predictionData holds 8 predictions.
SampleLen == 8
\* The order request's count field.
OrderCount == 1

\* --------------------------------------------------------------- the props
\* JS undefined / null / '' of a field the code only tests for truthiness.
\* An absent ticker or title is the empty string: every test of the code
\* takes '' and undefined alike.
NoTicker == ""
NoTitle == ""
NoError == "null"
NoDirection == "null"
Null == "null"

\* category.id of the catalog entries the category screen offers.
Categories == {"basketball"}

\* category.id of every catalog entry, and an id the sample data does not
\* know.
AllCategories ==
  {"football", "basketball", "tennis", "crypto", "stocks", "random", "politics"}

\* The user prop: both credentials, only the API key, or none.
Users ==
  { [kalshiApiKey |-> "key", kalshiPrivateKey |-> "pem"],
    [kalshiApiKey |-> "key", kalshiPrivateKey |-> ""],
    [kalshiApiKey |-> "", kalshiPrivateKey |-> ""] }

NoUser == [kalshiApiKey |-> "", kalshiPrivateKey |-> ""]

\* !user?.kalshiApiKey || !user?.kalshiPrivateKey, negated.
HasKeys(u) == u.kalshiApiKey # "" /\ u.kalshiPrivateKey # ""

Directions == {"yes", "no"}

\* ------------------------------------------------------------- sample data
\* predictionData[key]: 8 predictions, none of which has a ticker.  The
\* question is named by its list and position.
predictionData(key) ==
  [i \in 1..SampleLen |->
     [question |-> [from |-> key, n |-> i], ticker |-> NoTicker]]

SampleKeys == {"football", "basketball", "tennis", "crypto", "stocks", "random"}

\* Mutant of categoryPredictions: no default list for an id the sample data
\* does not know.
categoryPredictions_NoDefault(cat) ==
  IF cat \in SampleKeys THEN predictionData(cat) ELSE <<>>

\* predictionData[category.id] || predictionData.random
categoryPredictions(cat) ==
  IF cat \in SampleKeys THEN predictionData(cat) ELSE predictionData("random")

\* ----------------------------------------------------------------- strings
\* teamMap, in the order of its entries.
teamMap ==
  <<
     [abbr |-> "MIA", fullName |-> "Miami"],
     [abbr |-> "SAS", fullName |-> "San Antonio"],
     [abbr |-> "LAL", fullName |-> "Lakers"],
     [abbr |-> "GSW", fullName |-> "Warriors"],
     [abbr |-> "BOS", fullName |-> "Celtics"],
     [abbr |-> "NYK", fullName |-> "Knicks"],
     [abbr |-> "CHI", fullName |-> "Bulls"],
     [abbr |-> "PHI", fullName |-> "76ers"],
     [abbr |-> "DAL", fullName |-> "Mavericks"],
     [abbr |-> "DEN", fullName |-> "Nuggets"],
     [abbr |-> "PHX", fullName |-> "Suns"],
     [abbr |-> "MIL", fullName |-> "Bucks"],
     [abbr |-> "BKN", fullName |-> "Nets"],
     [abbr |-> "LAC", fullName |-> "Clippers"],
     [abbr |-> "ATL", fullName |-> "Hawks"],
     [abbr |-> "MEM", fullName |-> "Grizzlies"],
     [abbr |-> "MIN", fullName |-> "Timberwolves"],
     [abbr |-> "NOP", fullName |-> "Pelicans"],
     [abbr |-> "OKC", fullName |-> "Thunder"],
     [abbr |-> "POR", fullName |-> "Trail Blazers"],
     [abbr |-> "SAC", fullName |-> "Kings"],
     [abbr |-> "UTA", fullName |-> "Jazz"],
     [abbr |-> "HOU", fullName |-> "Rockets"],
     [abbr |-> "CHA", fullName |-> "Hornets"],
     [abbr |-> "DET", fullName |-> "Pistons"],
     [abbr |-> "IND", fullName |-> "Pacers"],
     [abbr |-> "ORL", fullName |-> "Magic"],
     [abbr |-> "TOR", fullName |-> "Raptors"],
     [abbr |-> "WAS", fullName |-> "Wizards"],
     [abbr |-> "CLE", fullName |-> "Cavaliers"] >>

\* s.split('-'): the pieces of s between its hyphens, empty ones included.
RECURSIVE split(_)
split(s) ==
  IF \A k \in 1..Len(s) : SubSeq(s, k, k) # "-"
    THEN << s >>
    ELSE LET i == CHOOSE k \in 1..Len(s) :
                    /\ SubSeq(s, k, k) = "-"
                    /\ \A j \in 1..(k - 1) : SubSeq(s, j, j) # "-"
         IN << SubSeq(s, 1, i - 1) >> \o split(SubSeq(s, i + 1, Len(s)))

\* s.includes(sub)
includes(s, sub) ==
  \E i \in 0..(Len(s) - Len(sub)) : SubSeq(s, i + 1, i + Len(sub)) = sub

\* names.join(sep)
RECURSIVE join(_, _)
join(names, sep) ==
  IF names = << >> THEN ""
  ELSE IF Len(names) = 1 THEN names[1]
  ELSE names[1] \o sep \o join(Tail(names), sep)

\* teamMap[key]: the full name, or undefined.  The keys looked up are made of
\* upper-case letters and digits, so none is a property teamMap inherits.
teamMapAt(key) ==
  IF \E i \in 1..Len(teamMap) : teamMap[i].abbr = key
    THEN teamMap[CHOOSE i \in 1..Len(teamMap) : teamMap[i].abbr = key].fullName
    ELSE ""

\* Mutant of teamsInMatch: the names come in the reverse of the table's
\* order.
teamsInMatch_ReverseOrder(matchString) ==
  LET found == SelectSeq(teamMap, LAMBDA e : includes(matchString, e.abbr))
  IN [i \in 1..Len(found) |-> found[Len(found) + 1 - i].fullName]

\* The loop over Object.entries(teamMap): the full names of the
\* abbreviations matchString includes, in the order of the table.
teamsInMatch(matchString) ==
  LET found == SelectSeq(teamMap, LAMBDA e : includes(matchString, e.abbr))
  IN [i \in 1..Len(found) |-> found[i].fullName]

\* Mutant of derives: two segments are enough.
derives_FromTwo(tickerParts) == Len(tickerParts) >= 2

\* tickerParts.length >= 3
derives(tickerParts) == Len(tickerParts) >= 3

\* The question, teamName and matchInfo the map callback of fetchMarkets
\* makes of a raw market record.
parseTicker(market) ==
  LET tickerParts == split(market.ticker)
      derive == market.ticker # "" /\ derives(tickerParts)
      teamName == IF derive THEN tickerParts[Len(tickerParts)] ELSE ""
      fullName == teamMapAt(teamName)
      matchInfo ==
        IF derive /\ tickerParts[2] # ""
          THEN LET names == teamsInMatch(tickerParts[2]) IN
                 IF Len(names) >= 2 THEN join(names, " vs ")
                 ELSE IF fullName # "" THEN fullName \o " Wins"
                 ELSE ""
          ELSE ""
      resolved == IF fullName # "" THEN fullName ELSE teamName
      question ==
        IF matchInfo # "" /\ teamName # ""
          THEN matchInfo \o " - Will " \o resolved \o " Win?"
        ELSE IF teamName # ""
          THEN "Will " \o resolved \o " Win?"
        ELSE IF market.title # "" THEN market.title
        ELSE market.ticker
  IN [question |-> question, teamName |-> teamName, matchInfo |-> matchInfo]

\* ------------------------------------------------- what the broker answers
\* yes_bid of a raw market record that has none (JS undefined); a bid is a
\* number of cents from 0 to 100.
NoBid == -1
YesBids == 0..100

\* Raw market records of a listing response; a record may lack its ticker,
\* its title and its yes_bid.
RawLists ==
  { <<>>,
    << [ticker |-> "KXNBAGAME-25OCT30MIASAS-SAS", title |-> NoTitle,
        yes_bid |-> 45] >>,
    << [ticker |-> "KXNBAGAME-25OCT30MIASAS-MIA", title |-> "Some Title",
        yes_bid |-> 55],
       [ticker |-> NoTicker, title |-> "Some Title", yes_bid |-> NoBid] >> }

\* One-record lists, one for every yes_bid.
BidLists ==
  { << [ticker |-> NoTicker, title |-> "Some Title", yes_bid |-> b] >> :
      b \in YesBids \cup {NoBid} }

\* A listing request ends in a success with a market list, in a non-success
\* response (the error thrown carries the generic message when the body names
\* none) or in a transport failure.
ListingResponses ==
  { [ok |-> TRUE, markets |-> l, message |-> NoError] : l \in RawLists }
    \cup { [ok |-> FALSE, markets |-> <<>>, message |-> "Failed to fetch markets"],
           [ok |-> FALSE, markets |-> <<>>, message |-> "Failed to fetch"] }

\* A listing response whose body is not JSON: response.json() throws.
MalformedListing ==
  [ok |-> FALSE, markets |-> <<>>, message |-> "Unexpected token < in JSON"]

\* Every way a listing request ends, with every yes_bid.
AllListingResponses ==
  ListingResponses
    \cup { MalformedListing }
    \cup { [ok |-> TRUE, markets |-> l, message |-> NoError] : l \in BidLists }

\* A number kept exact, as a fraction.
Fraction(n, d) == [num |-> n, den |-> d]
SameNumber(a, b) == a.num * b.den = b.num * a.den

\* JS truthiness of a yes_bid: undefined and 0 are falsy.
Truthy(bid) == bid # NoBid /\ bid # 0

\* market.yes_bid ? parseFloat(market.yes_bid) / 100 : 0.5
price(market) ==
  IF Truthy(market.yes_bid) THEN Fraction(market.yes_bid, 100)
                            ELSE Fraction(1, 2)

\* The callback of markets.map: the fields of the prediction read by the
\* session and its views.
formatMarket(market) ==
  LET parsed == parseTicker(market) IN
    [question |-> parsed.question,
     ticker |-> market.ticker,
     teamName |-> parsed.teamName,
     matchInfo |-> parsed.matchInfo,
     price |-> price(market),
     yes_bid |-> market.yes_bid]

\* markets.map(market => ...)
RECURSIVE formattedMarkets(_)
formattedMarkets(markets) ==
  IF markets = << >> THEN << >>
  ELSE << formatMarket(Head(markets)) >> \o formattedMarkets(Tail(markets))

\* A balance request ends in a success whose body carries `balance`, only
\* `balance_cents`, or neither, or in a failure.
BalanceResponses ==
  { [ok |-> TRUE, field |-> "balance", value |-> 5000],
    [ok |-> TRUE, field |-> "balance_cents", value |-> 1234],
    [ok |-> TRUE, field |-> "total", value |-> 700],
    [ok |-> FALSE, field |-> "error", value |-> 0] }

\* A balance response whose body is not JSON.
BadBody == "not JSON"

\* Every way a balance request ends: a success whose body carries one of
\* the fields the code knows or another one, with several amounts, a
\* non-success response, a body that is not JSON.
BalanceFields ==
  {"balance", "balance_cents", "account_balance", "portfolio_balance", "total"}
Amounts == {0, 1, 99, 1234, 5000}
AllBalanceResponses ==
  BalanceResponses
    \cup { [ok |-> TRUE, field |-> f, value |-> v] :
             f \in BalanceFields, v \in Amounts }
    \cup { [ok |-> FALSE, field |-> BadBody, value |-> 0] }

\* accountBalance: null, or value / 100 kept exact as currency units and
\* hundredths.
NullBalance == [null |-> TRUE, units |-> 0, hundredths |-> 0]
Div100(c) == [null |-> FALSE, units |-> c \div 100, hundredths |-> c % 100]
\* A value that is currency units already.
Units(v) == [null |-> FALSE, units |-> v, hundredths |-> 0]

\* An order request ends in a success, a non-success response whose error
\* body parses, one whose body does not parse, or a transport error.
OrderOutcomes == {"ok", "not ok", "bad body", "transport"}

\* ------------------------------------------------------------------- state
VARIABLES
  mounted,        \* a SwipeInterface instance is rendered by the /swipe route
  category,       \* props of the mounted instance
  user,
  currentIndex,   \* useState of the mounted instance
  predictions,
  stats,
  isLoading,
  error,
  swipeDirection,
  accountBalance,
  balanceLoading,
  \* Callbacks in flight, each a bag of records.  The field `alive` of a
  \* suspended fetch tells whether the instance that called it is still the
  \* mounted one.
  marketsReq,     \* fetchMarkets calls suspended at their fetch
  balanceReq,     \* fetchBalance calls suspended at their fetch
  awaitingOrder,  \* handleSwipe calls suspended at the place_order fetch
  timers,         \* scheduled 300 ms callbacks of handleSwipe
  loadTimers,     \* scheduled 500 ms callbacks of resetSession
  votesOnly,      \* history: number of votes accepted by the mounted instance
                  \* while it has accepted nothing but votes, else -1
  listingResp,    \* history: << the response the instance's fetchMarkets call
                  \* resumed with >>, << >> before
  balanceResp,    \* history: the same for its fetchBalance call
  \* The category screen (CategorySelection), rendered by the /categories
  \* route.
  csMounted,
  csAccountBalance,
  csBalanceLoading,
  csBalanceError,
  csBalanceReq,   \* its fetchBalance calls suspended at their fetch
  csBalanceResp   \* history: << the response its fetchBalance call resumed
                  \* with >>

vars ==
  << mounted, category, user, currentIndex, predictions, stats,
     isLoading, error, swipeDirection, accountBalance, balanceLoading,
     marketsReq, balanceReq, awaitingOrder, timers, loadTimers, votesOnly,
     listingResp, balanceResp, csMounted, csAccountBalance, csBalanceLoading,
     csBalanceError, csBalanceReq, csBalanceResp >>

\* The useState hooks of one instance.
hooks ==
  << currentIndex, predictions, stats, isLoading, error, swipeDirection,
     accountBalance, balanceLoading >>

async == << marketsReq, balanceReq, awaitingOrder, timers, loadTimers >>

seen == << listingResp, balanceResp >>

\* The category screen's state and its callbacks in flight.
cs ==
  << csMounted, csAccountBalance, csBalanceLoading, csBalanceError,
     csBalanceReq, csBalanceResp >>

One(x) == SetToBag({x})

\* Mutant of Alive: the state lives outside the instance, so the update of
\* any callback reaches whichever instance is mounted.
Alive_AnyInstance(r) == mounted

\* A state update made by callback r reaches the mounted instance only when
\* that instance made r: React ignores the updates of an unmounted one.
Alive(r) == mounted /\ r.alive

\* The callbacks of bag B once their instance is unmounted.
Retire(B) ==
  LET S == { [r EXCEPT !.alive = FALSE] : r \in BagToSet(B) } IN
    [s \in S |-> CopiesIn(s, B) + CopiesIn([s EXCEPT !.alive = TRUE], B)]

Pending == BagCardinality(awaitingOrder) + BagCardinality(timers)

\* ------------------------------------------------------------------- views
\* The component renders the loading view, else the complete view, else the
\* card with its three buttons.
LoadingView == isLoading
CompleteView == ~isLoading /\ currentIndex >= Len(predictions)
ActiveView == ~isLoading /\ ~(currentIndex >= Len(predictions))

\* ------------------------------------------------------------ mount/unmount
\* The state a new instance starts from, and the one kept while none is
\* mounted.
InitialHooks ==
  /\ currentIndex' = 0
  /\ predictions' = <<>>
  /\ stats' = [yes |-> 0, no |-> 0]
  /\ isLoading' = TRUE
  /\ error' = NoError
  /\ swipeDirection' = NoDirection
  /\ accountBalance' = NullBalance
  /\ balanceLoading' = TRUE

Init ==
  /\ mounted = FALSE
  /\ category = Null
  /\ user = NoUser
  /\ currentIndex = 0
  /\ predictions = <<>>
  /\ stats = [yes |-> 0, no |-> 0]
  /\ isLoading = TRUE
  /\ error = NoError
  /\ swipeDirection = NoDirection
  /\ accountBalance = NullBalance
  /\ balanceLoading = TRUE
  /\ marketsReq = EmptyBag
  /\ balanceReq = EmptyBag
  /\ awaitingOrder = EmptyBag
  /\ timers = EmptyBag
  /\ loadTimers = EmptyBag
  /\ votesOnly = 0
  /\ listingResp = <<>>
  /\ balanceResp = <<>>
  /\ csMounted = FALSE
  /\ csAccountBalance = NullBalance
  /\ csBalanceLoading = TRUE
  /\ csBalanceError = NoError
  /\ csBalanceReq = EmptyBag
  /\ csBalanceResp = <<>>

\* Mutant of Mount: the branch for absent credentials leaves the loading
\* view up.
Mount_NoKeysStaysLoading(c, u) ==
  /\ ~mounted
  /\ ~csMounted
  /\ BagCardinality(marketsReq) <= MaxStale
  /\ BagCardinality(balanceReq) <= MaxStale
  /\ mounted' = TRUE
  /\ category' = c
  /\ user' = u
  /\ currentIndex' = 0
  /\ stats' = [yes |-> 0, no |-> 0]
  /\ swipeDirection' = NoDirection
  /\ accountBalance' = NullBalance
  /\ error' = NoError
  /\ isLoading' = TRUE
  /\ IF HasKeys(u)
       THEN /\ balanceLoading' = TRUE
            /\ balanceReq' = balanceReq (+) One([alive |-> TRUE])
            /\ predictions' = <<>>
            /\ marketsReq' = marketsReq (+) One([alive |-> TRUE, category |-> c])
       ELSE /\ balanceLoading' = FALSE
            /\ balanceReq' = balanceReq
            /\ predictions' = categoryPredictions(c)
            /\ marketsReq' = marketsReq
  /\ votesOnly' = 0
  /\ listingResp' = <<>>
  /\ balanceResp' = <<>>
  /\ UNCHANGED << awaitingOrder, timers, loadTimers, cs >>

\* The /swipe route renders SwipeInterface with a category and a user; the
\* first render is followed by the two fetch effects, each up to its fetch.
Mount(c, u) ==
  /\ ~mounted
  /\ ~csMounted
  /\ BagCardinality(marketsReq) <= MaxStale
  /\ BagCardinality(balanceReq) <= MaxStale
  /\ mounted' = TRUE
  /\ category' = c
  /\ user' = u
  /\ currentIndex' = 0
  /\ stats' = [yes |-> 0, no |-> 0]
  /\ swipeDirection' = NoDirection
  /\ accountBalance' = NullBalance
  /\ error' = NoError
  /\ IF HasKeys(u)
       THEN /\ balanceLoading' = TRUE
            /\ balanceReq' = balanceReq (+) One([alive |-> TRUE])
            /\ predictions' = <<>>
            /\ isLoading' = TRUE
            /\ marketsReq' = marketsReq (+) One([alive |-> TRUE, category |-> c])
       ELSE /\ balanceLoading' = FALSE
            /\ balanceReq' = balanceReq
            /\ predictions' = categoryPredictions(c)
            /\ isLoading' = FALSE
            /\ marketsReq' = marketsReq
  /\ votesOnly' = 0
  /\ listingResp' = <<>>
  /\ balanceResp' = <<>>
  /\ UNCHANGED << awaitingOrder, timers, loadTimers, cs >>

\* The route stops rendering the instance and its state is gone.  Nothing it
\* has in flight is cancelled.  Its suspended fetchMarkets and fetchBalance
\* calls stay in the model, marked as those of an unmounted instance.  Its
\* timers and its suspended handleSwipe calls are left out from here on: all
\* they can still do is update the state of the unmounted instance.
Unmount ==
  /\ mounted' = FALSE
  /\ category' = Null
  /\ user' = NoUser
  /\ InitialHooks
  /\ votesOnly' = 0
  /\ marketsReq' = Retire(marketsReq)
  /\ balanceReq' = Retire(balanceReq)
  /\ awaitingOrder' = EmptyBag
  /\ timers' = EmptyBag
  /\ loadTimers' = EmptyBag
  /\ listingResp' = <<>>
  /\ balanceResp' = <<>>
  /\ UNCHANGED cs

\* The back button of the card and of the complete view.
onBack ==
  /\ mounted
  /\ ~LoadingView
  /\ Unmount

\* The browser leaves /swipe (history back, another URL).
NavigateAway ==
  /\ mounted
  /\ Unmount

\* ------------------------------------------------------------ fetchMarkets
\* Mutant of MarketsArrive: the catch block records the error and takes no
\* sample list.
MarketsArrive_NoFallbackOnError(r, resp) ==
  /\ BagIn(r, marketsReq)
  /\ marketsReq' = marketsReq (-) One(r)
  /\ IF Alive(r)
       THEN /\ IF resp.ok
                 THEN /\ predictions' =
                           IF Len(formattedMarkets(resp.markets)) > 0
                             THEN formattedMarkets(resp.markets)
                             ELSE categoryPredictions(r.category)
                      /\ error' = error
                 ELSE /\ error' = resp.message
                      /\ predictions' = predictions
            /\ isLoading' = FALSE
            /\ listingResp' = << resp >>
       ELSE UNCHANGED << predictions, error, isLoading, listingResp >>
  /\ UNCHANGED << mounted, category, user, currentIndex, stats,
                  swipeDirection, accountBalance, balanceLoading, balanceReq,
                  awaitingOrder, timers, loadTimers, votesOnly, balanceResp,
                  cs >>

\* Mutant of MarketsArrive: an empty list of a success is taken as it is.
MarketsArrive_NoEmptyFallback(r, resp) ==
  /\ BagIn(r, marketsReq)
  /\ marketsReq' = marketsReq (-) One(r)
  /\ IF Alive(r)
       THEN /\ IF resp.ok
                 THEN /\ predictions' = formattedMarkets(resp.markets)
                      /\ error' = error
                 ELSE /\ error' = resp.message
                      /\ predictions' = categoryPredictions(r.category)
            /\ isLoading' = FALSE
            /\ listingResp' = << resp >>
       ELSE UNCHANGED << predictions, error, isLoading, listingResp >>
  /\ UNCHANGED << mounted, category, user, currentIndex, stats,
                  swipeDirection, accountBalance, balanceLoading, balanceReq,
                  awaitingOrder, timers, loadTimers, votesOnly, balanceResp,
                  cs >>

\* fetchMarkets resumes with the listing response.
MarketsArrive(r, resp) ==
  /\ BagIn(r, marketsReq)
  /\ marketsReq' = marketsReq (-) One(r)
  /\ IF Alive(r)
       THEN /\ IF resp.ok
                 THEN /\ predictions' =
                           IF Len(formattedMarkets(resp.markets)) > 0
                             THEN formattedMarkets(resp.markets)
                             ELSE categoryPredictions(r.category)
                      /\ error' = error
                 ELSE /\ error' = resp.message
                      /\ predictions' = categoryPredictions(r.category)
            /\ isLoading' = FALSE
            /\ listingResp' = << resp >>
       ELSE UNCHANGED << predictions, error, isLoading, listingResp >>
  /\ UNCHANGED << mounted, category, user, currentIndex, stats,
                  swipeDirection, accountBalance, balanceLoading, balanceReq,
                  awaitingOrder, timers, loadTimers, votesOnly, balanceResp,
                  cs >>

\* ------------------------------------------------------------ fetchBalance
\* The balance the swipe screen reads out of a success body.
swipeBalance(resp) ==
  IF resp.field = "balance" THEN Div100(resp.value)
  ELSE IF resp.field = "balance_cents" THEN Div100(resp.value)
  ELSE NullBalance

\* Mutant of BalanceArrives: a failed balance request is reported through
\* the error state of the session.
BalanceArrives_FailureSetsError(r, resp) ==
  /\ BagIn(r, balanceReq)
  /\ balanceReq' = balanceReq (-) One(r)
  /\ IF Alive(r)
       THEN /\ accountBalance' =
                 IF resp.ok /\ ~swipeBalance(resp).null
                   THEN swipeBalance(resp)
                   ELSE accountBalance
            /\ error' = IF resp.ok THEN error ELSE "Failed to fetch balance"
            /\ balanceLoading' = FALSE
            /\ balanceResp' = << resp >>
       ELSE UNCHANGED << accountBalance, balanceLoading, balanceResp, error >>
  /\ UNCHANGED << mounted, category, user, currentIndex, predictions,
                  stats, isLoading, swipeDirection, marketsReq,
                  awaitingOrder, timers, loadTimers, votesOnly, listingResp,
                  cs >>

\* fetchBalance resumes with the balance response.
BalanceArrives(r, resp) ==
  /\ BagIn(r, balanceReq)
  /\ balanceReq' = balanceReq (-) One(r)
  /\ IF Alive(r)
       THEN /\ accountBalance' =
                 IF resp.ok /\ ~swipeBalance(resp).null
                   THEN swipeBalance(resp)
                   ELSE accountBalance
            /\ balanceLoading' = FALSE
            /\ balanceResp' = << resp >>
       ELSE UNCHANGED << accountBalance, balanceLoading, balanceResp >>
  /\ UNCHANGED << mounted, category, user, currentIndex, predictions,
                  stats, isLoading, error, swipeDirection, marketsReq,
                  awaitingOrder, timers, loadTimers, votesOnly, listingResp,
                  cs >>

\* -------------------------------------------------------------- handleSwipe
\* The history variable: one more vote, or no longer a votes-only session.
CountVote == votesOnly' = IF votesOnly >= 0 THEN votesOnly + 1 ELSE -1
NotVotesOnly == votesOnly' = -1

\* Mutant of handleSwipe: the order is placed without looking at the ticker.
handleSwipe_NoTickerCheck(direction) ==
  /\ ~(currentIndex >= Len(predictions))
  /\ swipeDirection' = direction
  /\ stats' = [stats EXCEPT ![direction] = @ + 1]
  /\ LET currentPrediction == predictions[currentIndex + 1] IN
       IF HasKeys(user)
         THEN /\ awaitingOrder' = awaitingOrder (+)
                   One([ticker |-> currentPrediction.ticker,
                        side |-> direction, count |-> OrderCount])
              /\ timers' = timers
         ELSE /\ timers' = timers (+) One([after |-> "no order"])
              /\ awaitingOrder' = awaitingOrder
  /\ CountVote
  /\ UNCHANGED << mounted, category, user, currentIndex, predictions,
                  isLoading, error, accountBalance, balanceLoading,
                  marketsReq, balanceReq, loadTimers >>
  /\ UNCHANGED << seen, cs >>

\* handleSwipe(direction) up to its first suspension: the place_order fetch
\* when the current prediction has a ticker and the user both keys, else the
\* end of the function, where the pacing timer is scheduled.
handleSwipe(direction) ==
  /\ ~(currentIndex >= Len(predictions))
  /\ swipeDirection' = direction
  /\ stats' = [stats EXCEPT ![direction] = @ + 1]
  /\ LET currentPrediction == predictions[currentIndex + 1] IN
       IF currentPrediction.ticker # NoTicker /\ HasKeys(user)
         THEN /\ awaitingOrder' = awaitingOrder (+)
                   One([ticker |-> currentPrediction.ticker,
                        side |-> direction, count |-> OrderCount])
              /\ timers' = timers
         ELSE /\ timers' = timers (+) One([after |-> "no order"])
              /\ awaitingOrder' = awaitingOrder
  /\ CountVote
  /\ UNCHANGED << mounted, category, user, currentIndex, predictions,
                  isLoading, error, accountBalance, balanceLoading,
                  marketsReq, balanceReq, loadTimers >>
  /\ UNCHANGED << seen, cs >>

\* Mutant of OrderSettles: a failed order ends handleSwipe before the pacing
\* timer is scheduled.
OrderSettles_FailureAborts(o, outcome) ==
  /\ BagIn(o, awaitingOrder)
  /\ awaitingOrder' = awaitingOrder (-) One(o)
  /\ timers' = IF outcome = "ok"
                 THEN timers (+) One([after |-> outcome])
                 ELSE timers
  /\ UNCHANGED << mounted, category, user, hooks, marketsReq,
                  balanceReq, loadTimers, votesOnly >>
  /\ UNCHANGED << seen, cs >>

\* The place_order fetch of a suspended handleSwipe ends: whatever the
\* outcome it is logged, and the pacing timer is scheduled.
OrderSettles(o, outcome) ==
  /\ BagIn(o, awaitingOrder)
  /\ awaitingOrder' = awaitingOrder (-) One(o)
  /\ timers' = timers (+) One([after |-> outcome])
  /\ UNCHANGED << mounted, category, user, hooks, marketsReq,
                  balanceReq, loadTimers, votesOnly >>
  /\ UNCHANGED << seen, cs >>

\* Mutant of PacingTimerFires: the callback clears the direction and leaves
\* the cursor.
PacingTimerFires_KeepsCursor(t) ==
  /\ BagIn(t, timers)
  /\ timers' = timers (-) One(t)
  /\ swipeDirection' = NoDirection
  /\ UNCHANGED << mounted, category, user, currentIndex, predictions, stats,
                  isLoading, error, accountBalance, balanceLoading,
                  marketsReq, balanceReq, awaitingOrder, loadTimers,
                  votesOnly >>
  /\ UNCHANGED << seen, cs >>

\* The 300 ms callback: setCurrentIndex(prev => prev + 1) and
\* setSwipeDirection(null).
PacingTimerFires(t) ==
  /\ BagIn(t, timers)
  /\ timers' = timers (-) One(t)
  /\ currentIndex' = currentIndex + 1
  /\ swipeDirection' = NoDirection
  /\ UNCHANGED << mounted, category, user, predictions, stats,
                  isLoading, error, accountBalance, balanceLoading,
                  marketsReq, balanceReq, awaitingOrder, loadTimers,
                  votesOnly >>
  /\ UNCHANGED << seen, cs >>

\* Mutant of skip: a skip is counted as a vote for no.
skip_CountsAsNo ==
  /\ currentIndex' = currentIndex + 1
  /\ swipeDirection' = NoDirection
  /\ stats' = [stats EXCEPT !.no = @ + 1]
  /\ NotVotesOnly
  /\ UNCHANGED << mounted, category, user, predictions,
                  isLoading, error, accountBalance, balanceLoading, async >>
  /\ UNCHANGED << seen, cs >>

\* The skip of the Space key and of the skip button.
skip ==
  /\ currentIndex' = currentIndex + 1
  /\ swipeDirection' = NoDirection
  /\ NotVotesOnly
  /\ UNCHANGED << mounted, category, user, predictions, stats,
                  isLoading, error, accountBalance, balanceLoading, async >>
  /\ UNCHANGED << seen, cs >>

\* ------------------------------------------------------------ handleKeyPress
Keys == {"ArrowLeft", "ArrowRight", " "}

\* Mutant of handleKeyPress: the listener does not look at the cursor.
handleKeyPress_NoCursorCheck(key) ==
  CASE key = "ArrowLeft" -> handleSwipe("no")
    [] key = "ArrowRight" -> handleSwipe("yes")
    [] key = " " -> skip

\* The keydown listener of window, registered whichever view is rendered.
handleKeyPress(key) ==
  /\ ~(currentIndex >= Len(predictions))
  /\ CASE key = "ArrowLeft" -> handleSwipe("no")
       [] key = "ArrowRight" -> handleSwipe("yes")
       [] key = " " -> skip

KeyDown(key) ==
  /\ mounted
  /\ key \in {"ArrowLeft", "ArrowRight"} => Pending < MaxPending
  /\ handleKeyPress(key)

\* ----------------------------------------------------------------- buttons
\* The yes and no buttons of the card.
ClickSwipe(direction) ==
  /\ mounted
  /\ ActiveView
  /\ Pending < MaxPending
  /\ handleSwipe(direction)

\* The skip button of the card.
ClickSkip ==
  /\ mounted
  /\ ActiveView
  /\ skip

\* Mutant of resetSession: the tally is kept.
resetSession_KeepsTally ==
  /\ currentIndex' = 0
  /\ isLoading' = TRUE
  /\ loadTimers' = loadTimers (+) One([after |-> "reset"])
  /\ NotVotesOnly
  /\ UNCHANGED << mounted, category, user, predictions, stats, error,
                  swipeDirection, accountBalance, balanceLoading, marketsReq,
                  balanceReq, awaitingOrder, timers >>
  /\ UNCHANGED << seen, cs >>

\* resetSession: the cursor and the tally are cleared and the loading view is
\* shown for 500 ms.
resetSession ==
  /\ currentIndex' = 0
  /\ stats' = [yes |-> 0, no |-> 0]
  /\ isLoading' = TRUE
  /\ loadTimers' = loadTimers (+) One([after |-> "reset"])
  /\ NotVotesOnly
  /\ UNCHANGED << mounted, category, user, predictions, error,
                  swipeDirection, accountBalance, balanceLoading, marketsReq,
                  balanceReq, awaitingOrder, timers >>
  /\ UNCHANGED << seen, cs >>

\* The "Start New Session" button of the complete view.
ClickReset ==
  /\ mounted
  /\ CompleteView
  /\ resetSession

\* The 500 ms callback of resetSession: setIsLoading(false).
LoadTimerFires(t) ==
  /\ BagIn(t, loadTimers)
  /\ loadTimers' = loadTimers (-) One(t)
  /\ isLoading' = FALSE
  /\ UNCHANGED << mounted, category, user, currentIndex, predictions,
                  stats, error, swipeDirection, accountBalance,
                  balanceLoading, marketsReq, balanceReq, awaitingOrder,
                  timers, votesOnly >>
  /\ UNCHANGED << seen, cs >>

\* ------------------------------------------------------------ specification
Next ==
  \/ \E c \in Categories, u \in Users : Mount(c, u)
  \/ onBack
  \/ NavigateAway
  \/ \E r \in BagToSet(marketsReq), resp \in ListingResponses :
       MarketsArrive(r, resp)
  \/ \E r \in BagToSet(balanceReq), resp \in BalanceResponses :
       BalanceArrives(r, resp)
  \/ \E key \in Keys : KeyDown(key)
  \/ \E d \in Directions : ClickSwipe(d)
  \/ ClickSkip
  \/ ClickReset
  \/ \E o \in BagToSet(awaitingOrder), outcome \in OrderOutcomes :
       OrderSettles(o, outcome)
  \/ \E t \in BagToSet(timers) : PacingTimerFires(t)
  \/ \E t \in BagToSet(loadTimers) : LoadTimerFires(t)

Spec == Init /\ [][Next]_vars

\* ------------------------------------------------------ the category screen
\* A state update made by callback r of the category screen reaches the
\* rendered instance only when that instance made r.
csAlive(r) == csMounted /\ r.alive

\* The /categories route renders CategorySelection with the user; the first
\* render is followed by the fetchBalance effect, up to its fetch.
csMount(u) ==
  /\ ~csMounted
  /\ ~mounted
  /\ BagCardinality(csBalanceReq) <= MaxStale
  /\ csMounted' = TRUE
  /\ csAccountBalance' = NullBalance
  /\ csBalanceError' = NoError
  /\ csBalanceResp' = <<>>
  /\ IF HasKeys(u)
       THEN /\ csBalanceLoading' = TRUE
            /\ csBalanceReq' = csBalanceReq (+) One([alive |-> TRUE])
       ELSE /\ csBalanceLoading' = FALSE
            /\ csBalanceReq' = csBalanceReq
  /\ UNCHANGED << mounted, category, user, hooks, async, votesOnly, seen >>

\* The route stops rendering the category screen: a category was chosen, or
\* the browser left /categories.  The suspended fetchBalance call stays.
csUnmount ==
  /\ csMounted
  /\ csMounted' = FALSE
  /\ csAccountBalance' = NullBalance
  /\ csBalanceLoading' = TRUE
  /\ csBalanceError' = NoError
  /\ csBalanceResp' = <<>>
  /\ csBalanceReq' = Retire(csBalanceReq)
  /\ UNCHANGED << mounted, category, user, hooks, async, votesOnly, seen >>

\* The balance the category screen reads out of a success body.
categoryBalance(resp) ==
  IF resp.field = "balance" THEN Div100(resp.value)
  ELSE IF resp.field = "balance_cents" THEN Div100(resp.value)
  ELSE IF resp.field = "account_balance" THEN Units(resp.value)
  ELSE IF resp.field = "portfolio_balance" THEN Units(resp.value)
  ELSE IF resp.value > 0 THEN Div100(resp.value)
  ELSE NullBalance

\* error.message of what fetchBalance of the category screen catches.
balanceErrorMessage(resp) ==
  IF resp.ok THEN "Unable to parse balance from response"
  ELSE IF resp.field = BadBody THEN "Unexpected token < in JSON"
  ELSE "Failed to fetch balance"

\* Mutant of csBalanceArrives: the loading flag is cleared at the end of the
\* try block, not in a finally.
csBalanceArrives_NoFinally(r, resp) ==
  /\ BagIn(r, csBalanceReq)
  /\ csBalanceReq' = csBalanceReq (-) One(r)
  /\ IF csAlive(r)
       THEN /\ IF resp.ok /\ ~categoryBalance(resp).null
                 THEN /\ csAccountBalance' = categoryBalance(resp)
                      /\ csBalanceError' = NoError
                      /\ csBalanceLoading' = FALSE
                 ELSE /\ csBalanceError' = balanceErrorMessage(resp)
                      /\ csAccountBalance' = csAccountBalance
                      /\ csBalanceLoading' = csBalanceLoading
            /\ csBalanceResp' = << resp >>
       ELSE UNCHANGED << csAccountBalance, csBalanceError, csBalanceLoading,
                         csBalanceResp >>
  /\ UNCHANGED << csMounted, mounted, category, user, hooks, async,
                  votesOnly, seen >>

\* fetchBalance of the category screen resumes with the balance response.
csBalanceArrives(r, resp) ==
  /\ BagIn(r, csBalanceReq)
  /\ csBalanceReq' = csBalanceReq (-) One(r)
  /\ IF csAlive(r)
       THEN /\ IF resp.ok /\ ~categoryBalance(resp).null
                 THEN /\ csAccountBalance' = categoryBalance(resp)
                      /\ csBalanceError' = NoError
                 ELSE /\ csBalanceError' = balanceErrorMessage(resp)
                      /\ csAccountBalance' = csAccountBalance
            /\ csBalanceLoading' = FALSE
            /\ csBalanceResp' = << resp >>
       ELSE UNCHANGED << csAccountBalance, csBalanceError, csBalanceLoading,
                         csBalanceResp >>
  /\ UNCHANGED << csMounted, mounted, category, user, hooks, async,
                  votesOnly, seen >>

\* ------------------------------------------------------- the balance shown
\* What the balance display of the card shows: "Loading...", the amount, or
\* "--".
swipeBalanceShown ==
  IF balanceLoading THEN "Loading..."
  ELSE IF ~accountBalance.null THEN "amount"
  ELSE "--"

\* What the balance display of the category screen shows: "Loading...",
\* "Error", the amount, or "--".
csBalanceShown ==
  IF csBalanceLoading THEN "Loading..."
  ELSE IF csBalanceError # NoError THEN "Error"
  ELSE IF ~csAccountBalance.null THEN "amount"
  ELSE "--"

\* ------------------------------------------------- the fetches of both screens
\* The two screens as they are mounted and unmounted and as their requests
\* end, for every category id and every response; no vote, skip or reset.
\* A swipe session begins when the listing request of the one before it has
\* ended.
NextFetch ==
  \/ \E c \in AllCategories, u \in Users :
       marketsReq = EmptyBag /\ Mount(c, u)
  \/ onBack
  \/ NavigateAway
  \/ \E r \in BagToSet(marketsReq), resp \in AllListingResponses :
       MarketsArrive(r, resp)
  \/ \E r \in BagToSet(balanceReq), resp \in AllBalanceResponses :
       BalanceArrives(r, resp)
  \/ \E u \in Users : csMount(u)
  \/ csUnmount
  \/ \E r \in BagToSet(csBalanceReq), resp \in AllBalanceResponses :
       csBalanceArrives(r, resp)

SpecFetch == Init /\ [][NextFetch]_vars

\* ------------------------------------------------------ the tickers parsed
\* Tickers of one to four segments: a first segment, a second one with no,
\* one, two or three abbreviations of teamMap in either order, apart or
\* overlapping, a third one, and a last one that is empty, an abbreviation of
\* teamMap or another word.
FirstSegments == {"KXNBAGAME", "SAS"}
MatchSegments ==
  {"", "25OCT30", "25OCT30SAS", "25OCT30MIASAS", "25OCT30SASMIA",
   "25OCT30LALAC", "MIASASLAL"}
ThirdSegments == {"", "25"}
LastSegments == {"", "SAS", "MIA", "XYZ"}

Tickers ==
  {NoTicker}
    \cup FirstSegments
    \cup { f \o "-" \o m : f \in FirstSegments, m \in MatchSegments }
    \cup { f \o "-" \o m \o "-" \o l :
             f \in FirstSegments, m \in MatchSegments, l \in LastSegments }
    \cup { f \o "-" \o m \o "-" \o t \o "-" \o l :
             f \in FirstSegments, m \in MatchSegments, t \in ThirdSegments,
             l \in LastSegments }

\* Listing responses of one market, one for every ticker, with and without
\* a title.
TickerResponses ==
  { [ok |-> TRUE,
     markets |-> << [ticker |-> t, title |-> ti, yes_bid |-> 45] >>,
     message |-> NoError] : t \in Tickers, ti \in {NoTitle, "Some Title"} }

\* The swipe screen as its listing request ends with every ticker.  A
\* session begins when the listing request of the one before it has ended.
NextParse ==
  \/ \E c \in Categories, u \in Users :
       marketsReq = EmptyBag /\ Mount(c, u)
  \/ NavigateAway
  \/ \E r \in BagToSet(marketsReq), resp \in TickerResponses :
       MarketsArrive(r, resp)
  \/ \E r \in BagToSet(balanceReq), resp \in BalanceResponses :
       BalanceArrives(r, resp)

SpecParse == Init /\ [][NextParse]_vars

\* ------------------------------------------------------ steps, as formulas
\* A step in which a vote is accepted: the tally of one direction grows by 1.
VoteStep(d) == stats' = [stats EXCEPT ![d] = @ + 1]
AnyVoteStep == \E d \in Directions : VoteStep(d)

\* A step in which a skip is accepted: the cursor moves without a pacing
\* timer having fired.
SkipStep == currentIndex' = currentIndex + 1 /\ timers' = timers

\* A step that issues an order request.
OrderIssued ==
  \E o \in BagToSet(awaitingOrder') :
    CopiesIn(o, awaitingOrder') > CopiesIn(o, awaitingOrder)

Tally == stats.yes + stats.no

\* ---------------------------------------------------------------------- C1
\* C1 as claimed: in every reachable state the number of votes counted is at
\* most the cursor.
C1_TallyAtMostCursor == Tally <= currentIndex

\* C1 amended: in every reachable state the number of votes counted is at
\* most the cursor plus the number of accepted votes whose advance has not
\* run yet.
C1_TallyAtMostCursorPlusPending == Tally <= currentIndex + Pending

\* A vote is counted and its advance has not run.
C1_Witness == mounted /\ Tally > currentIndex /\ currentIndex > 0

\* ---------------------------------------------------------------------- C2
\* C2: in every reachable state the cursor is at most the number of markets.
C2_CursorAtMostLength == currentIndex <= Len(predictions)

\* ---------------------------------------------------------------------- C3
\* C3: while transientDirection is set, no vote is accepted.
C3_NoSecondVote ==
  [][(mounted /\ swipeDirection # NoDirection) => ~AnyVoteStep]_vars

\* ---------------------------------------------------------------------- C4
\* C4: no accepted vote waits for its order request before its pacing delay
\* is started.
C4_VoteNeverWaitsForOrder == awaitingOrder = EmptyBag

\* ---------------------------------------------------------------------- C5
OrderFailures == {"not ok", "bad body", "transport"}

\* C5: a vote is counted and shown when it is accepted, before the outcome
\* of its order is known; the step in which the order request ends changes
\* neither the tally, the direction shown, the cursor nor the error state,
\* issues no further request and schedules the advance; and the scheduled
\* advance moves the cursor by one and clears the direction.
C5_FailedOrderDoesNotDisturbVote ==
  [][ /\ \A d \in Directions : VoteStep(d) => swipeDirection' = d
      /\ (mounted' /\ BagCardinality(awaitingOrder') < BagCardinality(awaitingOrder))
           => /\ BagCardinality(awaitingOrder') = BagCardinality(awaitingOrder) - 1
              /\ BagCardinality(timers') = BagCardinality(timers) + 1
              /\ UNCHANGED << stats, swipeDirection, currentIndex, error,
                              isLoading, predictions >>
      /\ (mounted' /\ BagCardinality(timers') < BagCardinality(timers))
           => /\ currentIndex' = currentIndex + 1
              /\ swipeDirection' = NoDirection
              /\ UNCHANGED << stats, error, awaitingOrder >>
    ]_vars

\* The order of a counted vote has failed and its advance is scheduled.
C5_Witness ==
  /\ mounted
  /\ Tally > 0
  /\ error = NoError
  /\ \E t \in BagToSet(timers) : t.after \in OrderFailures

\* ---------------------------------------------------------------------- C6
\* C6: a step that accepts a vote for direction d issues one order request
\* for the ticker of the market at the cursor, side d and count 1 when that
\* market has a ticker and both credentials are non-empty, and none
\* otherwise; no other step issues an order request.
C6_OneOrderPerVote ==
  [][ /\ \A d \in Directions :
           VoteStep(d) =>
             awaitingOrder' =
               IF /\ predictions[currentIndex + 1].ticker # NoTicker
                  /\ user.kalshiApiKey # ""
                  /\ user.kalshiPrivateKey # ""
                 THEN awaitingOrder (+)
                        One([ticker |-> predictions[currentIndex + 1].ticker,
                             side |-> d, count |-> 1])
                 ELSE awaitingOrder
      /\ ~AnyVoteStep => ~OrderIssued
    ]_vars

\* The order of the vote shown is in flight for the market at the cursor.
C6_Witness ==
  /\ mounted
  /\ currentIndex < Len(predictions)
  /\ \E o \in BagToSet(awaitingOrder) :
       /\ o.ticker = predictions[currentIndex + 1].ticker
       /\ o.side = swipeDirection

\* ---------------------------------------------------------------------- C7
\* C7: while the loading view is shown no vote and no skip is accepted.
C7_LoadingIgnoresRequests ==
  [][(mounted /\ isLoading) => (~AnyVoteStep /\ ~SkipStep /\ ~OrderIssued)]_vars

\* ---------------------------------------------------------------------- C8
\* The numbers of the complete view.
summary == [yes |-> stats.yes, no |-> stats.no, total |-> stats.yes + stats.no]

\* C8: from a state in which the session is complete, a step leaves the
\* tally as it is unless it is the reset or the unmount, accepts no skip and
\* issues no order request; the summary total is the sum of the two counts.
C8_CompleteIsFrozen ==
  [][(mounted /\ ~isLoading /\ currentIndex >= Len(predictions))
       => /\ \/ stats' = stats
             \/ isLoading' /\ currentIndex' = 0 /\ stats' = [yes |-> 0, no |-> 0]
             \/ ~mounted'
          /\ ~SkipStep
          /\ ~OrderIssued
          /\ summary.total = Tally
    ]_vars

\* A session with votes of both directions is complete.
C8_Witness ==
  /\ mounted
  /\ CompleteView
  /\ Len(predictions) > 0
  /\ stats.yes > 0
  /\ stats.no > 0

\* ---------------------------------------------------------------------- C9
\* C9: when a session has accepted k votes and nothing else, k is at most the
\* number of markets and no advance is pending, the tally and the cursor
\* are both k.
C9_VotesOnly ==
  (mounted /\ votesOnly >= 0 /\ votesOnly <= Len(predictions) /\ Pending = 0)
    => (Tally = votesOnly /\ currentIndex = votesOnly)

\* Every market of a session has been voted on and nothing else was done.
C9_Witness ==
  /\ mounted
  /\ votesOnly = Len(predictions)
  /\ votesOnly >= 2
  /\ Pending = 0
  /\ stats.yes > 0
  /\ stats.no > 0

\* --------------------------------------------------------------------- C10
\* C10: the step in which a listing or balance request of an unmounted
\* instance ends changes nothing of the state of the mounted instance.
C10_StaleResultDiscarded ==
  [][ /\ \A r \in BagToSet(marketsReq) :
           (~r.alive /\ CopiesIn(r, marketsReq') < CopiesIn(r, marketsReq))
             => UNCHANGED << mounted, category, user, hooks >>
      /\ \A r \in BagToSet(balanceReq) :
           (~r.alive /\ CopiesIn(r, balanceReq') < CopiesIn(r, balanceReq))
             => UNCHANGED << mounted, category, user, hooks >>
    ]_vars

\* A new session is loading while a listing and a balance request of an
\* earlier one are still outstanding.
C10_Witness ==
  /\ mounted
  /\ isLoading
  /\ balanceLoading
  /\ \E r \in BagToSet(marketsReq) : ~r.alive
  /\ \E r \in BagToSet(balanceReq) : ~r.alive

\* --------------------------------------------------------------------- C11
\* The listing request of the mounted instance.
OwnRequest == [alive |-> TRUE, category |-> category]

\* C11: a change of category or credentials starts a new session.  The step
\* that mounts the instance for the new props leaves the cursor and the tally
\* at zero; with both credentials it shows the loading view and issues the
\* listing request for the new category, without them it takes the sample
\* list of the new category.  Until the markets are there the session stays
\* loading with cursor and tally at zero, and the step that brings them ends
\* the instance's own request, ends the loading and keeps both at zero.  The
\* markets are the formatted list of a listing response or the sample list of
\* the new category, and stay the same for as long as the instance lives.
C11_NewSessionOnChange ==
  [][ /\ (~mounted /\ mounted')
           => /\ currentIndex' = 0
              /\ stats' = [yes |-> 0, no |-> 0]
              /\ IF user'.kalshiApiKey # "" /\ user'.kalshiPrivateKey # ""
                   THEN /\ isLoading'
                        /\ predictions' = <<>>
                        /\ marketsReq' = marketsReq (+)
                             One([alive |-> TRUE, category |-> category'])
                   ELSE /\ ~isLoading'
                        /\ predictions' = categoryPredictions(category')
                        /\ marketsReq' = marketsReq
      /\ (mounted /\ predictions = <<>>)
           => /\ isLoading
              /\ currentIndex = 0
              /\ Tally = 0
              /\ CopiesIn(OwnRequest, marketsReq) = 1
      /\ (mounted /\ mounted' /\ predictions = <<>> /\ predictions' # <<>>)
           => /\ ~isLoading'
              /\ currentIndex' = 0
              /\ stats' = [yes |-> 0, no |-> 0]
              /\ CopiesIn(OwnRequest, marketsReq') = 0
              /\ \/ predictions' = categoryPredictions(category)
                 \/ \E l \in RawLists : predictions' = formattedMarkets(l)
      /\ (mounted /\ mounted' /\ predictions # <<>>)
           => predictions' = predictions
    ]_vars

\* A second session, begun while a listing request of the first was still
\* outstanding, has become active with the markets of its own request.
C11_Witness ==
  /\ mounted
  /\ ActiveView
  /\ currentIndex = 0
  /\ Tally = 0
  /\ \E l \in RawLists : Len(l) > 0 /\ predictions = formattedMarkets(l)
  /\ \E r \in BagToSet(marketsReq) : ~r.alive

\* --------------------------------------------------------------------- C12
\* A step of the mounted instance in which resetSession runs: it schedules
\* the 500 ms callback.
ResetStep ==
  /\ mounted
  /\ mounted'
  /\ BagCardinality(loadTimers') > BagCardinality(loadTimers)

\* C12: the step in which the cursor reaches the number of markets leaves the
\* session in the complete view; and reset runs from the complete view only
\* and leaves the cursor at 0, the tally at zero and the loading view up.
C12_CompleteAtEndThenReset ==
  [][ /\ ( /\ mounted
           /\ mounted'
           /\ currentIndex < Len(predictions)
           /\ currentIndex' >= Len(predictions') )
           => (~isLoading' /\ currentIndex' >= Len(predictions'))
      /\ ResetStep
           => /\ ~isLoading
              /\ currentIndex >= Len(predictions)
              /\ currentIndex' = 0
              /\ stats' = [yes |-> 0, no |-> 0]
              /\ isLoading'
    ]_vars

\* --------------------------------------------------------------------- C13
\* C13: a reset invokes the market resolver again: with both credentials the
\* step issues a listing request for the category of the session, and
\* without them the markets are the sample list of that category.
C13_ResetResolvesAgain ==
  [][ ResetStep
        => IF user.kalshiApiKey # "" /\ user.kalshiPrivateKey # ""
             THEN marketsReq' = marketsReq (+) One(OwnRequest)
             ELSE /\ marketsReq' = marketsReq
                  /\ predictions' = categoryPredictions(category)
    ]_vars

\* --------------------------------------------------------------------- C14
\* C14: for every category id, the step that mounts a session for a user
\* without both credentials issues no listing and no balance request, sets
\* no error, ends the loading and leaves as markets the 8 predictions, in
\* their order, of the sample list named by the category id, or of the list
\* "random" when the sample data has no list of that name; and no later
\* step of the session changes these markets, sets an error or issues a
\* request.
C14_SampleListWithoutCredentials ==
  [][ /\ ( /\ ~mounted
           /\ mounted'
           /\ (user'.kalshiApiKey = "" \/ user'.kalshiPrivateKey = "") )
           => /\ marketsReq' = marketsReq
              /\ balanceReq' = balanceReq
              /\ error' = NoError
              /\ ~isLoading'
              /\ Len(predictions') = 8
              /\ \A i \in 1..8 :
                   predictions'[i].question =
                     [from |-> IF category' \in SampleKeys THEN category'
                                                            ELSE "random",
                      n |-> i]
      /\ ( /\ mounted
           /\ mounted'
           /\ (user.kalshiApiKey = "" \/ user.kalshiPrivateKey = "") )
           => /\ UNCHANGED << predictions, error >>
              /\ BagCardinality(marketsReq') <= BagCardinality(marketsReq)
              /\ BagCardinality(balanceReq') <= BagCardinality(balanceReq)
    ]_vars

\* A session for a user with an API key and no private key, and a category
\* the sample data does not know, shows the first card of the list "random".
C14_Witness ==
  /\ mounted
  /\ user.kalshiApiKey # ""
  /\ user.kalshiPrivateKey = ""
  /\ category \notin SampleKeys
  /\ ActiveView
  /\ error = NoError
  /\ predictions = predictionData("random")

\* --------------------------------------------------------------------- C15
\* The sample list named by the category id of the session, or the list
\* "random".
SampleOfCategory ==
  IF category \in SampleKeys THEN predictionData(category)
                             ELSE predictionData("random")

\* C15: for a session with both credentials, the step in which its listing
\* request ends in a failure (a non-success response, a transport failure, a
\* body that does not parse) or in a success with no market leaves as
\* markets the sample list of the session's category, or the list "random"
\* for an id without a list, and ends the loading.
C15_FailedListingFallsBack ==
  [][ ( /\ mounted
        /\ mounted'
        /\ listingResp = <<>>
        /\ listingResp' # <<>>
        /\ (~listingResp'[1].ok \/ listingResp'[1].markets = <<>>) )
        => /\ predictions' = SampleOfCategory
           /\ Len(predictions') > 0
           /\ ~isLoading'
    ]_vars

\* A session for an id without a sample list whose listing body did not
\* parse shows the first card of the list "random".
C15_Witness ==
  /\ mounted
  /\ category \notin SampleKeys
  /\ listingResp = << MalformedListing >>
  /\ error = MalformedListing.message
  /\ ActiveView
  /\ predictions = predictionData("random")

\* --------------------------------------------------------------------- C16
\* C16: in every reachable state in which a session is not loading, its
\* market list is not empty.
C16_MarketsWhenNotLoading == (mounted /\ ~isLoading) => Len(predictions) > 0

\* After a listing that succeeded with no market and a reset, the session is
\* active again with a sample list.
C16_Witness ==
  /\ mounted
  /\ ActiveView
  /\ currentIndex = 0
  /\ votesOnly = -1
  /\ listingResp # <<>>
  /\ listingResp[1].ok
  /\ listingResp[1].markets = <<>>
  /\ Len(predictions) = SampleLen

\* --------------------------------------------------------------------- C17
\* C17: the step in which the balance request of the session ends, in a
\* success or in a failure, changes neither the markets, the cursor, the
\* tally, the direction shown, the loading flag nor the error state; and
\* whatever the state of the balance request, the end of the session's
\* listing request can end the loading, a vote click is accepted whenever the
\* card is shown and fewer than MaxPending advances are pending, and a skip
\* click whenever the card is shown.
C17_BalanceIndependentOfSession ==
  [][ /\ (mounted /\ mounted' /\ balanceResp' # balanceResp)
           => UNCHANGED << predictions, currentIndex, stats, swipeDirection,
                           isLoading, error >>
      /\ (mounted /\ BagIn(OwnRequest, marketsReq))
           => ENABLED (\E resp \in ListingResponses :
                         MarketsArrive(OwnRequest, resp) /\ ~isLoading')
      /\ (mounted /\ ~isLoading /\ currentIndex < Len(predictions))
           => /\ ENABLED ClickSkip
              /\ Pending < MaxPending
                   => \A d \in Directions : ENABLED ClickSwipe(d)
    ]_vars

\* The balance request of a session has failed, no balance is held, and
\* votes have been counted and advanced over since.
C17_Witness ==
  /\ mounted
  /\ balanceResp # <<>>
  /\ ~balanceResp[1].ok
  /\ accountBalance = NullBalance
  /\ ~balanceLoading
  /\ ActiveView
  /\ currentIndex > 0
  /\ Tally > 0

\* --------------------------------------------------------------------- C18
\* C18: on either screen, once the balance request of the rendered instance
\* has ended in a non-success response or a body that does not parse, no
\* balance is held, none is displayed and the loading flag is cleared.
C18_FailedBalanceIsUnset ==
  /\ (mounted /\ balanceResp # <<>> /\ ~balanceResp[1].ok)
       => /\ accountBalance = NullBalance
          /\ ~balanceLoading
          /\ swipeBalanceShown = "--"
  /\ (csMounted /\ csBalanceResp # <<>> /\ ~csBalanceResp[1].ok)
       => /\ csAccountBalance = NullBalance
          /\ ~csBalanceLoading
          /\ csBalanceShown \in {"Error", "--"}

\* The body of the category screen's balance response did not parse, while
\* the request of an earlier instance of the screen is still outstanding.
C18_Witness ==
  /\ csMounted
  /\ csBalanceResp # <<>>
  /\ csBalanceResp[1].field = BadBody
  /\ csBalanceShown = "Error"
  /\ \E r \in BagToSet(csBalanceReq) : ~r.alive

\* --------------------------------------------------------------------- C19
\* The fields of a balance body whose meaning is known.
KnownBalanceFields ==
  {"balance", "balance_cents", "account_balance", "portfolio_balance"}

\* The body of success response resp carries an amount in cents: a balance,
\* a balance_cents, or a positive number under a field that is not known.
InCents(resp) ==
  /\ resp.ok
  /\ \/ resp.field \in {"balance", "balance_cents"}
     \/ resp.field \notin KnownBalanceFields /\ resp.value > 0

\* Balance b is c / 100.
IsHundredthOf(b, c) ==
  /\ ~b.null
  /\ b.hundredths \in 0..99
  /\ 100 * b.units + b.hundredths = c

\* C19: on either screen, once the balance request of the rendered instance
\* has ended in a success whose body carries c under balance, c under
\* balance_cents, or a positive c under a field that is not known, the
\* balance held is c / 100.
C19_BalanceInHundredths ==
  /\ (mounted /\ balanceResp # <<>> /\ InCents(balanceResp[1]))
       => IsHundredthOf(accountBalance, balanceResp[1].value)
  /\ (csMounted /\ csBalanceResp # <<>> /\ InCents(csBalanceResp[1]))
       => IsHundredthOf(csAccountBalance, csBalanceResp[1].value)

\* --------------------------------------------------------------------- C20
\* C20: for every market of a session made from a record of a listing
\* response, the price is the record's yes_bid / 100 when the record has a
\* yes_bid, for every yes_bid from 0 to 100, and 1/2 when it has none.
C20_PriceFromYesBid ==
  mounted =>
    \A i \in 1..Len(predictions) :
      LET m == predictions[i] IN
        "yes_bid" \in DOMAIN m =>
          IF m.yes_bid # NoBid
            THEN SameNumber(m.price, Fraction(m.yes_bid, 100))
            ELSE SameNumber(m.price, Fraction(1, 2))

\* ----------------------------------------------- tickers, as the claims see
\* The positions of the hyphens of ticker t; t has one segment more than it
\* has hyphens.
Hyphens(t) == { k \in 1..Len(t) : SubSeq(t, k, k) = "-" }
SegmentCount(t) == Cardinality(Hyphens(t)) + 1

\* The segment between the first two hyphens, and the one after the last.
SecondSegment(t) ==
  LET h1 == CHOOSE k \in Hyphens(t) : \A j \in Hyphens(t) : k <= j
      h2 == CHOOSE k \in Hyphens(t) \ {h1} : \A j \in Hyphens(t) \ {h1} : k <= j
  IN SubSeq(t, h1 + 1, h2 - 1)
FinalSegment(t) ==
  LET h == CHOOSE k \in Hyphens(t) : \A j \in Hyphens(t) : k >= j
  IN SubSeq(t, h + 1, Len(t))

\* The full names of the abbreviations of the team table, from entry i on,
\* that occur in segment seg, in the order of the table.
RECURSIVE NamesFrom(_, _)
NamesFrom(seg, i) ==
  IF i > Len(teamMap) THEN << >>
  ELSE (IF \E k \in 0..(Len(seg) - Len(teamMap[i].abbr)) :
             SubSeq(seg, k + 1, k + Len(teamMap[i].abbr)) = teamMap[i].abbr
          THEN << teamMap[i].fullName >>
          ELSE << >>) \o NamesFrom(seg, i + 1)
NamesIn(seg) == NamesFrom(seg, 1)

\* The names of a list with " vs " between them.
RECURSIVE JoinedByVs(_)
JoinedByVs(names) ==
  IF Len(names) = 1 THEN names[1]
  ELSE names[1] \o " vs " \o JoinedByVs(Tail(names))

IsAbbreviation(w) == \E i \in 1..Len(teamMap) : teamMap[i].abbr = w
FullNameOf(w) ==
  teamMap[CHOOSE i \in 1..Len(teamMap) : teamMap[i].abbr = w].fullName
FullNameOrItself(w) == IF IsAbbreviation(w) THEN FullNameOf(w) ELSE w

\* The raw record and the market of every position of the list the mounted
\* session got from its listing response.
LiveMarkets ==
  IF mounted /\ listingResp # << >> /\ listingResp[1].ok
       /\ listingResp[1].markets # << >>
    THEN { [raw |-> listingResp[1].markets[i], market |-> predictions[i]] :
             i \in 1..Len(predictions) }
    ELSE {}

\* --------------------------------------------------------------------- C21
\* C21 as claimed: for every ticker of three or more segments whose second
\* segment contains two or more abbreviations of the team table, teamName is
\* the final segment, matchInfo is the full names of the abbreviations
\* contained, in table order, joined by " vs ", and the question is
\* "<matchInfo> - Will <full name of teamName, or teamName> Win?"; and
\* KXNBAGAME-25OCT30MIASAS-SAS gives SAS, "Miami vs San Antonio" and
\* "Miami vs San Antonio - Will San Antonio Win?".
C21_TwoTeamsQuestion ==
  \A x \in LiveMarkets :
    LET t == x.raw.ticker
        m == x.market
    IN /\ (SegmentCount(t) >= 3 /\ Len(NamesIn(SecondSegment(t))) >= 2)
            => /\ m.teamName = FinalSegment(t)
               /\ m.matchInfo = JoinedByVs(NamesIn(SecondSegment(t)))
               /\ m.question =
                    JoinedByVs(NamesIn(SecondSegment(t))) \o " - Will "
                      \o FullNameOrItself(FinalSegment(t)) \o " Win?"
       /\ t = "KXNBAGAME-25OCT30MIASAS-SAS"
            => /\ m.teamName = "SAS"
               /\ m.matchInfo = "Miami vs San Antonio"
               /\ m.question = "Miami vs San Antonio - Will San Antonio Win?"

\* C21 amended: the same, where the question is the one claimed when the
\* final segment is not empty, and is the title, or the ticker when there is
\* no title, when the final segment is empty.
C21_TwoTeamsQuestionUnlessNoTeam ==
  \A x \in LiveMarkets :
    LET t == x.raw.ticker
        m == x.market
    IN /\ (SegmentCount(t) >= 3 /\ Len(NamesIn(SecondSegment(t))) >= 2)
            => /\ m.teamName = FinalSegment(t)
               /\ m.matchInfo = JoinedByVs(NamesIn(SecondSegment(t)))
               /\ m.question =
                    IF FinalSegment(t) # ""
                      THEN JoinedByVs(NamesIn(SecondSegment(t))) \o " - Will "
                             \o FullNameOrItself(FinalSegment(t)) \o " Win?"
                    ELSE IF x.raw.title # "" THEN x.raw.title
                    ELSE t
       /\ t = "KXNBAGAME-25OCT30MIASAS-SAS"
            => /\ m.teamName = "SAS"
               /\ m.matchInfo = "Miami vs San Antonio"
               /\ m.question = "Miami vs San Antonio - Will San Antonio Win?"

\* The second segment names San Antonio before Miami and the final segment
\* is no abbreviation of the table: the names come in the table's order and
\* the final segment stands for itself.
C21_Witness ==
  \E x \in LiveMarkets :
    /\ x.raw.ticker = "KXNBAGAME-25OCT30SASMIA-XYZ"
    /\ x.market.matchInfo = "Miami vs San Antonio"
    /\ x.market.question = "Miami vs San Antonio - Will XYZ Win?"

\* --------------------------------------------------------------------- C22
\* C22: for every ticker of three or more segments in whose second segment,
\* empty or not, fewer than two abbreviations of the team table occur: when
\* the final segment is an abbreviation of the table, matchInfo is
\* "<FullName> Wins" and the question "<FullName> Wins - Will <FullName>
\* Win?"; when it is not empty and not in the table, matchInfo is empty and
\* the question is "Will <final segment> Win?".
C22_OneTeamQuestion ==
  \A x \in LiveMarkets :
    LET t == x.raw.ticker
        m == x.market
    IN (SegmentCount(t) >= 3 /\ Len(NamesIn(SecondSegment(t))) < 2)
         => /\ IsAbbreviation(FinalSegment(t))
                 => /\ m.matchInfo = FullNameOf(FinalSegment(t)) \o " Wins"
                    /\ m.question =
                         FullNameOf(FinalSegment(t)) \o " Wins - Will "
                           \o FullNameOf(FinalSegment(t)) \o " Win?"
            /\ (FinalSegment(t) # "" /\ ~IsAbbreviation(FinalSegment(t)))
                 => /\ m.matchInfo = ""
                    /\ m.question = "Will " \o FinalSegment(t) \o " Win?"

\* --------------------------------------------------------------------- C23
\* C23: for every ticker of fewer than three segments the question is the
\* title of the record, or the ticker as it is when the record has no
\* title, and teamName and matchInfo are empty.
C23_ShortTickerUnparsed ==
  \A x \in LiveMarkets :
    (x.raw.ticker # "" /\ SegmentCount(x.raw.ticker) < 3)
      => /\ x.market.question =
              IF x.raw.title # "" THEN x.raw.title ELSE x.raw.ticker
         /\ x.market.teamName = ""
         /\ x.market.matchInfo = ""

\* A ticker of two segments, the second with two abbreviations, and no
\* title: the question is the ticker.
C23_Witness ==
  \E x \in LiveMarkets :
    /\ x.raw.ticker = "KXNBAGAME-25OCT30MIASAS"
    /\ x.raw.title = ""
    /\ x.market.question = "KXNBAGAME-25OCT30MIASAS"
    /\ x.market.teamName = ""

\* --------------------------------------------------------------------- C24
\* C24: a skip accepted while the card is shown moves the cursor by exactly
\* one and clears the direction shown; it leaves the tally, the markets, the
\* balance, the error state and the loading flags as they are, issues no
\* request and schedules nothing.
C24_SkipChangesCursorOnly ==
  [][ (mounted /\ mounted' /\ ActiveView /\ SkipStep)
        => /\ currentIndex' = currentIndex + 1
           /\ swipeDirection' = NoDirection
           /\ UNCHANGED << stats, predictions, accountBalance, balanceLoading,
                           error, isLoading, category, user >>
           /\ UNCHANGED << marketsReq, balanceReq, awaitingOrder, timers,
                           loadTimers >>
    ]_vars

\* A session with a balance has moved past its first market by a skip, with
\* no vote counted.
C24_Witness ==
  /\ mounted
  /\ ActiveView
  /\ currentIndex = 1
  /\ Tally = 0
  /\ Pending = 0
  /\ votesOnly = -1
  /\ ~accountBalance.null
  /\ swipeDirection = NoDirection

\* --------------------------------------------------------------------- C25
\* C25: the cursor of a session moves only forward and by one, except at a
\* reset; and it moves past the current market only by a skip of that market
\* or by the advance of a vote cast on that market, whose direction is still
\* shown (the direction is set by a vote and cleared whenever the cursor
\* moves).
C25_OneDecisionPerMarket ==
  [][ (mounted /\ mounted' /\ currentIndex' # currentIndex /\ ~ResetStep)
        => /\ currentIndex' = currentIndex + 1
           /\ SkipStep \/ swipeDirection # NoDirection
    ]_vars


\* --------------------------------------------------------------------- C26
\* C26: while the session has cursor 0 and an empty tally, as it has after a
\* reset and until a decision is accepted in it, a step of the instance keeps
\* the cursor at 0 and the tally empty unless it accepts a vote or a skip; no
\* advance of a vote cast before the reset moves the cursor.
C26_ResetIsolatesSession ==
  [][ (mounted /\ mounted' /\ currentIndex = 0 /\ Tally = 0)
        => \/ AnyVoteStep
           \/ SkipStep
           \/ currentIndex' = 0 /\ stats' = stats
    ]_vars

====
